---- MODULE Spec2Model ----
(***************************************************************************)
(* Connection pool and health monitor of grpc.GRPCClient                   *)
(* (src/grpc/client.go, current revision, lines 1-579).                    *)
(*                                                                         *)
(* One pool, a set of goroutines running GetServiceConnectionWithContext   *)
(* (callers and the redials launched by the monitor), the monitor          *)
(* goroutine, one goroutine calling Close, the ticker/clock and the gRPC   *)
(* transport, which decides what conn.GetState() reports of an open channel.*)
(* Every section of code that runs under connsMutex is one action;         *)
(* everything the code does between two lock sections is its own action.   *)
(* Spec holds the pool with InitializeAllConnections, SpecLive adds the    *)
(* scheduling of the callers, SpecClose that of the monitor and of Close,  *)
(* SpecDiag the diagnostic functions, and SpecLate is the pool whose       *)
(* callers arrive after Close() has begun.                                 *)
(* SpecRetry is GRPCErrorHandler.RetryOperation and SpecBreaker the        *)
(* CircuitBreaker (src/grpc/error.go), SpecSockets the WebSocketManager    *)
(* (src/grpc/config.go), SpecTx the transaction helpers                    *)
(* (src/unnamed/part_007, src/infrastructure/grpc/server.go).              *)
(***************************************************************************)
EXTENDS Naturals, Integers, FiniteSets, Sequences, TLC

\* ---------------------------------------------------------------- bounds
\* Goroutines that may run GetServiceConnectionWithContext (each runs once).
NThreads == 2
\* time.Since(info.LastUsed) is tracked in whole monitor intervals and
\* saturates at this many intervals (the code compares it with 2 only).
MaxAgeTicks == 3
\* Calls of Close() made on the pool.
MaxCloseCalls == 2
\* The largest maxRetries handed to RetryOperation.
MaxRetriesArg == 6
\* The largest baseDelay handed to RetryOperation, in seconds.
MaxBaseDelay == 3
\* The largest threshold handed to NewCircuitBreaker.
MaxThreshold == 3
\* The largest timeout handed to NewCircuitBreaker, in clock steps.
MaxTimeout == 2
\* time.Since(cb.lastFailureTime) is tracked in clock steps and saturates
\* here (the code compares it with the timeout only).
MaxSince == 3
\* failureCount and successCount are followed up to this value.
MaxCount == 4
\* Goroutines calling AddConnection and RemoveConnection.
NClients == 2
\* AddConnection is called while connectionCount is below this value.
MaxConnCount == 3

\* ------------------------------------------------------ program constants
\* healthCheckInterval, in seconds.
healthCheckInterval == 30
\* defaultMaxRetries: c.maxRetries of a pool built with NewGRPCClient.
defaultMaxRetries == 3

\* ------------------------------------------------------------------ sets
\* The Service Directory (two of the four configured names) and a name that
\* is not configured.
Services == {"trip-service", "identity-service"}

Unknown == "no-such-service"

Names == Services \cup {Unknown}

Threads == 1..NThreads

\* A channel (*grpc.ClientConn) is identified by the goroutine that dialed
\* it; 0 is "no channel" (absent map key / nil).
Chans == Threads

NoChan == 0

\* connectivity.State as conn.GetState() reports it.
Healthy == {"Ready", "Idle", "Connecting"}

Live == {"Idle", "Connecting", "Ready", "TransientFailure"}

NoInfo == [Conn |-> NoChan, State |-> "None", Age |-> 0]

MaxAge == MaxAgeTicks * healthCheckInterval

VARIABLES
    conns,        \* c.conns: name -> channel (NoChan when the key is absent)
    connInfo,     \* c.connInfo: name -> ConnectionInfo (NoInfo when absent);
                  \* Age is time.Since(LastUsed)
    chan,         \* every channel: "None" (not dialed), "Open" or "Shutdown"
                  \* (closed by conn.Close())
    th,           \* the goroutines running GetServiceConnectionWithContext
    mon,          \* the monitor goroutine
    tickPending,  \* a tick waits in ticker.C
    stopClosed,   \* c.cancel() was called and c.stopMonitor is closed
    cl,           \* the goroutine calling Close()
    lastClose,    \* what the last completed Close() did and returned
    panicked,     \* the process panicked
    lk,           \* how the last step held c.connsMutex: "W" (Lock), "R"
                  \* (RLock) or "none"
    retry,        \* a run of GRPCErrorHandler.RetryOperation
    ini,          \* the goroutine calling InitializeAllConnections()
    cb,           \* a CircuitBreaker (src/grpc/error.go)
    ws,           \* a WebSocketManager (src/grpc/config.go) and the
                  \* goroutines calling it
    tx            \* a call of ExecuteTransaction and a call of
                  \* WithEntTransaction

\* The state that the steps of GetServiceConnection, of the monitor and of
\* Close() leave alone.
others == <<retry, ini, cb, ws, tx>>

\* The state of the pool and of the goroutines working on it.
poolVars == <<conns, connInfo, chan, th, mon, tickPending, stopClosed, cl,
              lastClose, panicked, lk>>

vars == <<poolVars, others>>

\* attempts: the calls of grpc.DialContext the goroutine has made.
IdleThread == [pc |-> "idle", kind |-> "none", name |-> Unknown, old |-> NoChan,
               state |-> "None", res |-> "none", ret |-> NoChan, attempts |-> 0]

MonRest == [pc |-> "select", toCheck |-> {}, cur |-> Unknown, conn |-> NoChan,
            state |-> "None"]

\* RetryOperation before it is called. slept: the delays it has slept, in
\* order; calls: how often it has called the operation; lastErr: the call
\* whose error it keeps (0: none); res: "nil" or "failed" once it returned.
NoRetry == [pc |-> "idle", maxRetries |-> 0, baseDelay |-> 0, i |-> 0,
            slept |-> <<>>, calls |-> 0, lastErr |-> 0, res |-> "none"]

\* InitializeAllConnections before it is called. res: "nil" or "error" once
\* it returned; count: the number in its error.
NoInit == [pc |-> "idle", res |-> "none", count |-> 0]

\* No CircuitBreaker yet. since: time.Since(lastFailureTime), in clock
\* steps; res: what the last Execute returned; invoked: how often it called
\* the operation; at: the state in which it called it; streak: the calls of
\* the operation that have failed since the last one that succeeded.
NoBreaker == [made |-> FALSE, failureCount |-> 0, successCount |-> 0,
              since |-> 0, state |-> "CircuitClosed", threshold |-> 0,
              timeout |-> 0, res |-> "none", invoked |-> 0, at |-> "none",
              streak |-> 0]

\* The user types and ids that AddConnection and RemoveConnection are
\* called with.
UserTypes == {"rider", "driver"}

UserIDs == {"u1", "u2"}

Clients == 1..NClients

\* config.go lines 91, 107: connectionID := userType + ":" + userID
ConnectionID(userType, userID) == userType \o ":" \o userID

ConnectionIDs == {ConnectionID(ut, id) : ut \in UserTypes, id \in UserIDs}

\* config.go lines 85-87: the zero WebSocketManager. connections: the
\* sync.Map, key -> the goroutine whose connection is stored (0: no entry);
\* g: where each calling goroutine is, and with which key.
NoSockets == [connections |-> [k \in ConnectionIDs |-> 0],
              connectionCount |-> 0,
              g |-> [c \in Clients |-> [pc |-> "idle", key |-> "none"]]]

\* The two transaction helpers.
TxCalls == {"ExecuteTransaction", "WithEntTransaction"}

\* The errors the function run in a transaction may return.
FnErrors == {"e1", "e2"}

\* What a helper returns: err is the error (or "nil", or the panic value),
\* wrap says in which message fmt.Errorf has wrapped it ("none": returned
\* as it is; "panic": not returned but raised again).
NoRes == [wrap |-> "none", err |-> "none"]

\* A helper before it is called. begin, fn, commit, rollback: what Begin
\* (db.Tx), the function, Commit and the Rollback after the function's
\* error did ("none": not called); fnRuns, commits, rollbacks: how often
\* the helper has called them.
NoTx == [pc |-> "idle", begin |-> "none", fn |-> "none", commit |-> "none",
         rollback |-> "none", fnRuns |-> 0, commits |-> 0, rollbacks |-> 0,
         res |-> NoRes]

\* Nothing closed yet. order: the names in the order the loop of Close()
\* visited them; closed: the channels it closed; err: the returned error
\* ("nil", or the name whose conn.Close() gave it); held: the channels that
\* callers had been handed when Close() returned.
NoClose == [order |-> <<>>, closed |-> {}, err |-> "nil", held |-> {}]

Init ==
    /\ conns = [n \in Names |-> NoChan]
    /\ connInfo = [n \in Names |-> NoInfo]
    /\ chan = [c \in Chans |-> "None"]
    /\ th = [t \in Threads |-> IdleThread]
    /\ mon = MonRest
    /\ tickPending = FALSE
    /\ stopClosed = FALSE
    /\ cl = [pc |-> "idle", calls |-> 0]
    /\ lastClose = NoClose
    /\ panicked = FALSE
    /\ lk = "none"
    /\ retry = NoRetry
    /\ ini = NoInit
    /\ cb = NoBreaker
    /\ ws = NoSockets
    /\ tx = [w \in TxCalls |-> NoTx]

\* ------------------------------------------------------------ helpers
\* Mutant: every name is taken to be configured.
GetServiceConfigAnyName(n) == n \in Names

\* GetServiceConfig: the directory lookup.
GetServiceConfig(n) == n \in Services

\* conn.GetState(): a closed channel reports Shutdown; for an open one the
\* transport decides, so the read may give any of the other states.
GetState(c) == IF chan[c] = "Shutdown" THEN {"Shutdown"} ELSE Live

\* Mutant: conn.Close() leaves the channel open.
CloseChanLeaked(ch, c) == ch

\* conn.Close(): the channel ends in Shutdown.
CloseChan(ch, c) == [ch EXCEPT ![c] = "Shutdown"]

\* conn.Close() returns an error when the channel is closed already.
CloseFails(ch, c) == ch[c] = "Shutdown"

\* Mutant: the metadata of the name is left behind.
DeleteConnOnly(n) ==
    /\ conns' = [conns EXCEPT ![n] = NoChan]
    /\ connInfo' = connInfo

\* Mutant: the handle of the name is left behind.
DeleteInfoOnly(n) ==
    /\ conns' = conns
    /\ connInfo' = [connInfo EXCEPT ![n] = NoInfo]

\* delete(c.conns, name); delete(c.connInfo, name)
DeleteEntry(n) ==
    /\ conns' = [conns EXCEPT ![n] = NoChan]
    /\ connInfo' = [connInfo EXCEPT ![n] = NoInfo]

Return(t, res, ret) ==
    [th EXCEPT ![t].pc = "done", ![t].res = res, ![t].ret = ret,
               ![t].state = "None"]

\* The channels that GetServiceConnection has handed to callers.
Held ==
    {th[t].ret : t \in {u \in Threads : /\ th[u].pc = "done"
                                         /\ th[u].kind = "caller"
                                         /\ th[u].ret # NoChan}}

\* The goroutine slots are taken in order (goroutines are interchangeable).
FreeSlot(t) ==
    /\ th[t].pc = "idle"
    /\ \A u \in Threads : u < t => th[u].pc # "idle"

\* ---------------------------------------- GetServiceConnectionWithContext
\* A caller starts GetServiceConnection(n).
Invoke(t, n) ==
    /\ ~panicked
    /\ lk' = "none"
    /\ UNCHANGED others
    /\ FreeSlot(t)
    /\ th' = [th EXCEPT ![t] = [IdleThread EXCEPT !.pc = "lookup",
                                    !.kind = "caller", !.name = n]]
    /\ UNCHANGED <<conns, connInfo, chan, mon, tickPending, stopClosed, cl,
                   lastClose, panicked>>

\* Mutant: only Shutdown counts as a bad state.
UsableUnlessShutdown(s) == s # "Shutdown"

\* Line 170: the states in which a cached channel is returned as it is.
Usable(s) == s \in Healthy

\* Lines 163-166 and 190-198: the lookup under RLock with conn.GetState(),
\* and, on a miss, the directory lookup.
Lookup(t) ==
    LET n == th[t].name
        c == conns[n]
    IN  /\ ~panicked
        /\ lk' = "R"
        /\ UNCHANGED others
        /\ th[t].pc = "lookup"
        /\ IF c # NoChan
             THEN \E s \in GetState(c) :
                    th' = [th EXCEPT ![t].old = c, ![t].state = s,
                                     ![t].pc = IF Usable(s) THEN "touch"
                                               ELSE "evict"]
             ELSE IF GetServiceConfig(n)
                    THEN th' = [th EXCEPT ![t].pc = "dial"]
                    ELSE th' = Return(t, "notfound", NoChan)
        /\ UNCHANGED <<conns, connInfo, chan, mon, tickPending, stopClosed, cl,
                       lastClose, panicked>>

\* Mutant: the refresh forgets LastUsed.
RefreshStateOnly(info, s) ==
    IF info # NoInfo THEN [info EXCEPT !.State = s] ELSE info

\* Lines 172-177: LastUsed and State of the entry stored under the name
\* are refreshed.
Refresh(info, s) ==
    IF info # NoInfo THEN [info EXCEPT !.Age = 0, !.State = s] ELSE info

\* Lines 170-179: the fast path; the refresh under Lock, and the looked-up
\* handle is returned.
Touch(t) ==
    LET n == th[t].name
    IN  /\ ~panicked
        /\ lk' = "W"
        /\ UNCHANGED others
        /\ th[t].pc = "touch"
        /\ connInfo' = [connInfo EXCEPT ![n] = Refresh(@, th[t].state)]
        /\ th' = Return(t, "ok", th[t].old)
        /\ UNCHANGED <<conns, chan, mon, tickPending, stopClosed, cl,
                       lastClose, panicked>>

\* Lines 181-189 and 194-198: the stale entry is deleted and the looked-up
\* channel closed under Lock; then the directory lookup.
Evict(t) ==
    LET n == th[t].name
    IN  /\ ~panicked
        /\ lk' = "W"
        /\ UNCHANGED others
        /\ th[t].pc = "evict"
        /\ DeleteEntry(n)
        /\ chan' = CloseChan(chan, th[t].old)
        /\ th' = IF GetServiceConfig(n)
                   THEN [th EXCEPT ![t].pc = "dial", ![t].state = "None"]
                   ELSE Return(t, "notfound", NoChan)
        /\ UNCHANGED <<mon, tickPending, stopClosed, cl, lastClose, panicked>>

\* Lines 209-220: grpc.DialContext (non-blocking); it fails or hands back a
\* new channel. An error is returned to the caller at once: the function
\* has no loop around the dial and reads neither c.maxRetries nor
\* c.retryBackoff.
Dial(t) ==
    /\ ~panicked
    /\ lk' = "none"
    /\ UNCHANGED others
    /\ th[t].pc = "dial"
    /\ \E ok \in BOOLEAN :
         IF ok
           THEN /\ chan' = [chan EXCEPT ![t] = "Open"]
                /\ th' = [th EXCEPT ![t].pc = "wait", ![t].attempts = @ + 1]
           ELSE /\ chan' = chan
                /\ th' = [Return(t, "dialfail", NoChan) EXCEPT
                            ![t].attempts = @ + 1]
    /\ UNCHANGED <<conns, connInfo, mon, tickPending, stopClosed, cl,
                   lastClose, panicked>>

\* Mutant: the final state check is left out.
ReadyOutcomeUnverified(s1, s2, s3) ==
    IF s1 \notin {"Ready", "Idle"} /\ s2 # "Connecting" THEN "notready"
    ELSE "ok"

\* Mutant: Connecting is rejected, as the older revision did (lines 742-803).
ReadyOutcomeStrict(s1, s2, s3) ==
    IF s1 \notin {"Ready", "Idle"} THEN "notready"
    ELSE IF s3 \notin {"Ready", "Idle"} THEN "badstate"
    ELSE "ok"

\* Lines 222-246: the outcome of the ready-wait for the states read by
\* waitForReady when it returns (s1), after its error (s2) and by the final
\* check (s3). waitForReady returns nil on Ready/Idle and an error on
\* Shutdown or on the timeout; after an error only Connecting is kept.
ReadyOutcome(s1, s2, s3) ==
    IF s1 \notin {"Ready", "Idle"} /\ s2 # "Connecting" THEN "notready"
    ELSE IF s3 \notin Healthy THEN "badstate"
    ELSE "ok"

\* What the ready-wait on channel c can end with: the result, and for "ok"
\* the state that goes into the metadata.
ReadyOutcomes(c) ==
    {[res |-> ReadyOutcome(s1, s2, s3),
      state |-> IF ReadyOutcome(s1, s2, s3) = "ok" THEN s3 ELSE "None"] :
        s1 \in GetState(c), s2 \in GetState(c), s3 \in GetState(c)}

\* Lines 222-263: the ready-wait on the dialed channel, which no other
\* goroutine can reach yet, and then either its Close or the insert under
\* Lock.
Insert(t) ==
    LET n == th[t].name
    IN  /\ ~panicked
        /\ UNCHANGED others
        /\ th[t].pc = "wait"
        /\ \E o \in ReadyOutcomes(t) :
             IF o.res = "ok"
               THEN /\ conns' = [conns EXCEPT ![n] = t]
                    /\ connInfo' = [connInfo EXCEPT
                                      ![n] = [Conn |-> t, State |-> o.state,
                                              Age |-> 0]]
                    /\ chan' = chan
                    /\ th' = Return(t, "ok", t)
                    /\ lk' = "W"
               ELSE /\ chan' = CloseChan(chan, t)
                    /\ th' = Return(t, o.res, NoChan)
                    /\ lk' = "none"
                    /\ UNCHANGED <<conns, connInfo>>
        /\ UNCHANGED <<mon, tickPending, stopClosed, cl, lastClose, panicked>>

\* ------------------------------------------------------------ environment
\* A caller closes a handle that GetServiceConnection returned to it.
HandleClose(t) ==
    /\ ~panicked
    /\ lk' = "none"
    /\ UNCHANGED others
    /\ th[t].pc = "done"
    /\ th[t].kind = "caller"
    /\ th[t].ret # NoChan
    /\ chan[th[t].ret] = "Open"
    /\ chan' = CloseChan(chan, th[t].ret)
    /\ UNCHANGED <<conns, connInfo, th, mon, tickPending, stopClosed, cl,
                   lastClose, panicked>>

\* One monitor interval passes: every LastUsed is one interval older and
\* the ticker, unless stopped, puts a tick into its channel.
ClockTick ==
    /\ ~panicked
    /\ lk' = "none"
    /\ UNCHANGED others
    /\ connInfo' = [n \in Names |->
                      IF connInfo[n] = NoInfo \/ connInfo[n].Age >= MaxAge
                        THEN connInfo[n]
                        ELSE [connInfo[n] EXCEPT
                                !.Age = @ + healthCheckInterval]]
    /\ tickPending' = IF mon.pc = "exited" THEN tickPending ELSE TRUE
    /\ \/ connInfo' # connInfo
       \/ tickPending' # tickPending
    /\ UNCHANGED <<conns, chan, th, mon, stopClosed, cl, lastClose, panicked>>

\* ------------------------------------------------------------ the monitor
\* Mutant: the stop case only leaves the select (a break instead of the
\* return), and the loop goes on.
MonStopBreak ==
    /\ ~panicked
    /\ lk' = "none"
    /\ UNCHANGED others
    /\ mon.pc = "select"
    /\ stopClosed
    /\ mon' = MonRest
    /\ UNCHANGED <<conns, connInfo, chan, th, tickPending, stopClosed, cl,
                   lastClose, panicked>>

\* Lines 499-504: the select sees ctx.Done() or the closed stopMonitor.
MonStop ==
    /\ ~panicked
    /\ lk' = "none"
    /\ UNCHANGED others
    /\ mon.pc = "select"
    /\ stopClosed
    /\ mon' = [MonRest EXCEPT !.pc = "exited"]
    /\ UNCHANGED <<conns, connInfo, chan, th, tickPending, stopClosed, cl,
                   lastClose, panicked>>

\* Lines 505-519: a tick is received and the names of the pool are
\* snapshotted under RLock.
MonTick ==
    /\ ~panicked
    /\ lk' = "R"
    /\ UNCHANGED others
    /\ mon.pc = "select"
    /\ tickPending
    /\ tickPending' = FALSE
    /\ mon' = [MonRest EXCEPT !.pc = "loop",
                              !.toCheck = {n \in Names : conns[n] # NoChan}]
    /\ UNCHANGED <<conns, connInfo, chan, th, stopClosed, cl, lastClose,
                   panicked>>

\* Lines 521-528: the next name of the snapshot is looked up under RLock;
\* the pass ends when the snapshot is exhausted.
MonNext ==
    /\ ~panicked
    /\ lk' = IF mon.toCheck = {} THEN "none" ELSE "R"
    /\ UNCHANGED others
    /\ mon.pc = "loop"
    /\ IF mon.toCheck = {}
         THEN mon' = MonRest
         ELSE \E n \in mon.toCheck :
                mon' = IF conns[n] = NoChan
                         THEN [mon EXCEPT !.toCheck = @ \ {n}]
                         ELSE [mon EXCEPT !.toCheck = @ \ {n}, !.cur = n,
                                          !.conn = conns[n], !.pc = "getstate"]
    /\ UNCHANGED <<conns, connInfo, chan, th, tickPending, stopClosed, cl,
                   lastClose, panicked>>

MonContinue == [mon EXCEPT !.pc = "loop", !.cur = Unknown, !.conn = NoChan,
                           !.state = "None"]

\* Mutant: a channel that is still Connecting is handled as a failed one.
MonSwitchStrict(s) ==
    CASE s = "Shutdown" -> [mon EXCEPT !.pc = "evictSD", !.state = s]
      [] s \in {"TransientFailure", "Connecting"} ->
           [mon EXCEPT !.pc = "tfcheck", !.state = s]
      [] OTHER -> [mon EXCEPT !.pc = "update", !.state = s]

\* Lines 532, 533, 542, 570: the switch on the state read; Connecting has
\* no case and the pass goes on to the next name.
MonSwitch(s) ==
    CASE s = "Shutdown" -> [mon EXCEPT !.pc = "evictSD", !.state = s]
      [] s = "TransientFailure" -> [mon EXCEPT !.pc = "tfcheck", !.state = s]
      [] s \in {"Ready", "Idle"} -> [mon EXCEPT !.pc = "update", !.state = s]
      [] OTHER -> MonContinue

\* Lines 530-532: conn.GetState() and the switch on it.
MonGetState ==
    /\ ~panicked
    /\ lk' = "none"
    /\ UNCHANGED others
    /\ mon.pc = "getstate"
    /\ \E s \in GetState(mon.conn) : mon' = MonSwitch(s)
    /\ UNCHANGED <<conns, connInfo, chan, th, tickPending, stopClosed, cl,
                       lastClose, panicked>>

\* Lines 533-541: a Shutdown entry is deleted and closed under Lock.
MonEvictShutdown ==
    /\ ~panicked
    /\ lk' = "W"
    /\ UNCHANGED others
    /\ mon.pc = "evictSD"
    /\ DeleteEntry(mon.cur)
    /\ chan' = CloseChan(chan, mon.conn)
    /\ mon' = MonContinue
    /\ UNCHANGED <<th, tickPending, stopClosed, cl, lastClose, panicked>>

\* Mutant: two intervals are enough.
TooLongInclusive(info) ==
    info # NoInfo /\ info.Age >= 2 * healthCheckInterval

\* Line 548: the entry has not been used for more than two intervals.
TooLong(info) ==
    info # NoInfo /\ info.Age > 2 * healthCheckInterval

\* Lines 543-548: the metadata is read under RLock and LastUsed compared.
MonTFCheck ==
    /\ ~panicked
    /\ lk' = "R"
    /\ UNCHANGED others
    /\ mon.pc = "tfcheck"
    /\ mon' = IF TooLong(connInfo[mon.cur])
                THEN [mon EXCEPT !.pc = "evictTF"]
                ELSE MonContinue
    /\ UNCHANGED <<conns, connInfo, chan, th, tickPending, stopClosed, cl,
                   lastClose, panicked>>

\* Lines 549-568: the entry is deleted and closed under Lock and one
\* goroutine is started that redials through GetServiceConnectionWithContext.
MonEvictTF ==
    /\ ~panicked
    /\ lk' = "W"
    /\ UNCHANGED others
    /\ mon.pc = "evictTF"
    /\ \E t \in Threads :
         /\ FreeSlot(t)
         /\ th' = [th EXCEPT ![t] = [IdleThread EXCEPT !.pc = "lookup",
                                        !.kind = "redial", !.name = mon.cur]]
    /\ DeleteEntry(mon.cur)
    /\ chan' = CloseChan(chan, mon.conn)
    /\ mon' = MonContinue
    /\ UNCHANGED <<tickPending, stopClosed, cl, lastClose, panicked>>

\* Lines 570-576: State of a Ready/Idle entry is refreshed under Lock.
MonUpdate ==
    /\ ~panicked
    /\ lk' = "W"
    /\ UNCHANGED others
    /\ mon.pc = "update"
    /\ connInfo' = IF connInfo[mon.cur] # NoInfo
                     THEN [connInfo EXCEPT ![mon.cur].State = mon.state]
                     ELSE connInfo
    /\ mon' = MonContinue
    /\ UNCHANGED <<conns, chan, th, tickPending, stopClosed, cl, lastClose,
                   panicked>>

\* ------------------------------------------------------------------ Close
\* Lines 357-363: c.cancel(), then close(c.stopMonitor), which panics when
\* the channel is closed already.
CloseStop ==
    /\ ~panicked
    /\ lk' = "none"
    /\ UNCHANGED others
    /\ cl.pc = "idle"
    /\ cl.calls < MaxCloseCalls
    /\ cl' = [pc |-> "wait", calls |-> cl.calls + 1]
    /\ IF stopClosed
         THEN panicked' = TRUE /\ stopClosed' = stopClosed
         ELSE stopClosed' = TRUE /\ panicked' = panicked
    /\ UNCHANGED <<conns, connInfo, chan, th, mon, tickPending, lastClose>>

\* Mutant: Close() does not wait for the monitor.
WaitSkipped == TRUE

\* Line 364: c.monitorWg.Wait() returns when the monitor goroutine is done.
WaitDone == mon.pc = "exited"

CloseWait ==
    /\ ~panicked
    /\ lk' = "none"
    /\ UNCHANGED others
    /\ cl.pc = "wait"
    /\ WaitDone
    /\ cl' = [cl EXCEPT !.pc = "teardown"]
    /\ UNCHANGED <<conns, connInfo, chan, th, mon, tickPending, stopClosed,
                   lastClose, panicked>>

\* The orders in which range may visit the keys S of a map.
Orders(S) ==
    {o \in [1..Cardinality(S) -> S] :
        \A i, j \in 1..Cardinality(S) : i # j => o[i] # o[j]}

\* Lines 369-382: the loop over c.conns; the result is the channel states
\* after it and the names whose conn.Close() returned an error, in order.
RECURSIVE CloseLoop(_, _, _, _)
CloseLoop(order, i, ch, failed) ==
    IF i > Len(order)
      THEN [chan |-> ch, failed |-> failed]
      ELSE LET c == conns[order[i]]
           IN  CloseLoop(order, i + 1, CloseChan(ch, c),
                         IF CloseFails(ch, c) THEN Append(failed, order[i])
                         ELSE failed)

\* Mutant: every error overwrites lastErr (as the older Close did).
LastErrOverwritten(failed) ==
    IF failed = <<>> THEN "nil" ELSE failed[Len(failed)]

\* Lines 373-377: lastErr keeps the first error.
LastErr(failed) == IF failed = <<>> THEN "nil" ELSE failed[1]

\* Lines 366-393: under Lock every pooled channel is closed and both maps
\* are replaced by empty ones; lastErr is returned.
CloseTeardown ==
    /\ ~panicked
    /\ lk' = "W"
    /\ UNCHANGED others
    /\ cl.pc = "teardown"
    /\ \E order \in Orders({n \in Names : conns[n] # NoChan}) :
         LET r == CloseLoop(order, 1, chan, <<>>)
         IN  /\ chan' = r.chan
             /\ lastClose' = [order |-> order,
                              closed |-> {conns[order[i]] : i \in 1..Len(order)},
                              err |-> LastErr(r.failed),
                              held |-> Held]
    /\ conns' = [n \in Names |-> NoChan]
    /\ connInfo' = [n \in Names |-> NoInfo]
    /\ cl' = [cl EXCEPT !.pc = "idle"]
    /\ UNCHANGED <<th, mon, tickPending, stopClosed, panicked>>

\* ------------------------------------------------------------ diagnostics
\* Lines 466-488: GetConnectionInfo(n) under RLock: an error when the name
\* has no metadata; otherwise info.State of the pooled entry is assigned
\* from conn.GetState() and a new ConnectionInfo with the fields is returned.
GetConnectionInfo(n) ==
    /\ ~panicked
    /\ IF connInfo[n] # NoInfo /\ conns[n] # NoChan
         THEN \E s \in GetState(conns[n]) :
                connInfo' = [connInfo EXCEPT ![n].State = s]
         ELSE connInfo' = connInfo
    /\ lk' = "R"
    /\ UNCHANGED <<conns, chan, th, mon, tickPending, stopClosed, cl,
                   lastClose, panicked, others>>

\* Lines 439-463: GetAllConnections() under RLock: info.State of every
\* pooled entry is assigned from conn.GetState() and a new map of new
\* ConnectionInfo records is returned.
GetAllConnections ==
    /\ ~panicked
    /\ LET pooled == {n \in Names : connInfo[n] # NoInfo /\ conns[n] # NoChan}
       IN  \E f \in [pooled -> Live \cup {"Shutdown"}] :
             /\ \A n \in pooled : f[n] \in GetState(conns[n])
             /\ connInfo' = [n \in Names |->
                               IF n \in pooled
                                 THEN [connInfo[n] EXCEPT !.State = f[n]]
                                 ELSE connInfo[n]]
    /\ lk' = "R"
    /\ UNCHANGED <<conns, chan, th, mon, tickPending, stopClosed, cl,
                   lastClose, panicked, others>>

\* ------------------------------------------------ InitializeAllConnections
\* The goroutines started by InitializeAllConnections.
InitThreads == {t \in Threads : th[t].kind = "init"}

\* Lines 409-426: one goroutine per name of Services is started, each
\* calling GetServiceConnectionWithContext for its name. f gives the slot of
\* each name's goroutine; the lowest free slots are taken.
InitStart ==
    /\ ~panicked
    /\ ini.pc = "idle"
    /\ \E f \in [Services -> Threads] :
         /\ \A n, m \in Services : n # m => f[n] # f[m]
         /\ \A n \in Services : th[f[n]].pc = "idle"
         /\ \A u \in Threads :
              (th[u].pc = "idle" /\ \A n \in Services : f[n] # u) =>
                \A n \in Services : f[n] < u
         /\ th' = [t \in Threads |->
                     IF \E n \in Services : f[n] = t
                       THEN [IdleThread EXCEPT
                               !.pc = "lookup", !.kind = "init",
                               !.name = CHOOSE n \in Services : f[n] = t]
                       ELSE th[t]]
    /\ ini' = [ini EXCEPT !.pc = "wait"]
    /\ lk' = "none"
    /\ UNCHANGED <<conns, connInfo, chan, mon, tickPending, stopClosed, cl,
                   lastClose, panicked, retry, cb, ws, tx>>

\* Mutant: the first failure ends the count.
InitFailuresFirstOnly ==
    IF \E t \in InitThreads : th[t].res # "ok" THEN 1 ELSE 0

\* Lines 413-421: errors holds one error for every goroutine whose call
\* returned an error.
InitFailures == Cardinality({t \in InitThreads : th[t].res # "ok"})

\* Lines 428-435: wg.Wait() returns when every goroutine is done; the
\* result is nil when errors is empty and an error with len(errors)
\* otherwise.
InitReturn ==
    /\ ~panicked
    /\ ini.pc = "wait"
    /\ \A t \in InitThreads : th[t].pc = "done"
    /\ ini' = [pc |-> "done",
               res |-> IF InitFailures > 0 THEN "error" ELSE "nil",
               count |-> InitFailures]
    /\ lk' = "none"
    /\ UNCHANGED <<conns, connInfo, chan, th, mon, tickPending, stopClosed, cl,
                   lastClose, panicked, retry, cb, ws, tx>>

\* ---------------------------------------------------------- RetryOperation
\* error.go line 149: baseDelay * time.Duration(1<<uint(i)), in seconds (an
\* int64 of nanoseconds in the code, which these arguments do not overflow).
Delay(b, i) == b * 2^i

\* error.go lines 137-140: RetryOperation(operation, m, b) is called; the
\* loop is not entered when m is not positive.
RetryStart(m, b) ==
    /\ retry.pc = "idle"
    /\ retry' = [NoRetry EXCEPT !.maxRetries = m, !.baseDelay = b,
                                !.pc = IF 0 < m THEN "call" ELSE "done",
                                !.res = IF 0 < m THEN "none" ELSE "failed"]
    /\ UNCHANGED <<poolVars, ini, cb, ws, tx>>

\* error.go lines 141-148, 140, 156: operation() is called; nil ends the
\* run, an error is kept in lastErr and is followed by a sleep unless this
\* was the last attempt.
RetryCall ==
    /\ retry.pc = "call"
    /\ \E ok \in BOOLEAN :
         retry' =
           IF ok
             THEN [retry EXCEPT !.calls = @ + 1, !.pc = "done", !.res = "nil"]
             ELSE IF retry.i < retry.maxRetries - 1
               THEN [retry EXCEPT !.calls = @ + 1, !.lastErr = retry.calls + 1,
                                  !.pc = "sleep"]
               ELSE [retry EXCEPT !.calls = @ + 1, !.lastErr = retry.calls + 1,
                                  !.i = @ + 1, !.pc = "done", !.res = "failed"]
    /\ UNCHANGED <<poolVars, ini, cb, ws, tx>>

\* error.go lines 149-152, 140: the delay is computed and slept, then i++.
RetrySleep ==
    /\ retry.pc = "sleep"
    /\ retry' = [retry EXCEPT !.slept = Append(@, Delay(retry.baseDelay, retry.i)),
                              !.i = @ + 1, !.pc = "call"]
    /\ UNCHANGED <<poolVars, ini, cb, ws, tx>>

NextRetry ==
    \/ \E m \in 0..MaxRetriesArg, b \in 1..MaxBaseDelay : RetryStart(m, b)
    \/ RetryCall
    \/ RetrySleep

SpecRetry == Init /\ [][NextRetry]_vars

\* ---------------------------------------------------------- CircuitBreaker
\* error.go lines 178-184: NewCircuitBreaker(threshold, timeout).
NewCircuitBreaker(t, d) ==
    /\ ~cb.made
    /\ cb' = [NoBreaker EXCEPT !.made = TRUE, !.threshold = t, !.timeout = d]
    /\ UNCHANGED <<poolVars, retry, ini, ws, tx>>

\* Mutant: the timeout counts as elapsed when it is just reached.
ElapsedInclusive(c) == c.since >= c.timeout

\* error.go line 189: time.Since(cb.lastFailureTime) > cb.timeout.
Elapsed(c) == c.since > c.timeout

\* Mutant: a success leaves failureCount as it is.
OnSuccessNoReset(c, st) ==
    [c EXCEPT !.successCount = @ + 1,
              !.state = IF st = "CircuitHalfOpen" THEN "CircuitClosed" ELSE st,
              !.res = "nil", !.invoked = 1, !.at = st]

\* error.go lines 196, 209-216: the operation, called in state st, returned
\* nil.
OnSuccess(c, st) ==
    [c EXCEPT !.successCount = @ + 1, !.failureCount = 0,
              !.state = IF st = "CircuitHalfOpen" THEN "CircuitClosed" ELSE st,
              !.res = "nil", !.invoked = 1, !.at = st]

\* error.go lines 196-207: the operation, called in state st, returned an
\* error.
OnFailure(c, st) ==
    [c EXCEPT !.failureCount = @ + 1, !.since = 0,
              !.state = IF c.failureCount + 1 >= c.threshold
                          THEN "CircuitOpen" ELSE st,
              !.res = "err", !.invoked = 1, !.at = st]

\* error.go lines 187-217: Execute(operation), where ok says whether the
\* operation returns nil. The counters are followed up to MaxCount.
Execute(ok) ==
    /\ cb.made
    /\ IF cb.state = "CircuitOpen" /\ ~Elapsed(cb)
         THEN cb' = [cb EXCEPT !.res = "Unavailable", !.invoked = 0,
                               !.at = "none"]
         ELSE LET st == IF cb.state = "CircuitOpen" THEN "CircuitHalfOpen"
                        ELSE cb.state
              IN  IF ok
                    THEN /\ cb.successCount < MaxCount
                         /\ cb' = [OnSuccess(cb, st) EXCEPT !.streak = 0]
                    ELSE /\ cb.failureCount < MaxCount
                         /\ cb' = [OnFailure(cb, st) EXCEPT !.streak = @ + 1]
    /\ UNCHANGED <<poolVars, retry, ini, ws, tx>>

\* Time passes: one clock step more since the last failure.
BreakerTick ==
    /\ cb.made
    /\ cb.since < MaxSince
    /\ cb' = [cb EXCEPT !.since = @ + 1]
    /\ UNCHANGED <<poolVars, retry, ini, ws, tx>>

NextBreaker ==
    \/ \E t \in 0..MaxThreshold, d \in 0..MaxTimeout : NewCircuitBreaker(t, d)
    \/ \E ok \in BOOLEAN : Execute(ok)
    \/ BreakerTick

SpecBreaker == Init /\ [][NextBreaker]_vars

\* -------------------------------------------------------- WebSocketManager
\* config.go lines 90-100: AddConnection up to wm.connections.Store, which
\* replaces whatever is stored under the key.
AddStore(c, userID, userType) ==
    LET k == ConnectionID(userType, userID)
    IN  /\ ws.g[c].pc = "idle"
        /\ ws.connectionCount < MaxConnCount
        /\ ws' = [ws EXCEPT !.connections[k] = c,
                            !.g[c] = [pc |-> "stored", key |-> k]]
        /\ UNCHANGED <<poolVars, retry, ini, cb, tx>>

\* config.go line 101: atomic.AddInt64(&wm.connectionCount, 1).
AddCount(c) ==
    /\ ws.g[c].pc = "stored"
    /\ ws' = [ws EXCEPT !.connectionCount = @ + 1,
                        !.g[c] = [pc |-> "idle", key |-> "none"]]
    /\ UNCHANGED <<poolVars, retry, ini, cb, tx>>

\* config.go lines 106-110: RemoveConnection up to LoadAndDelete; without
\* an entry under the key the call is over. (conn.Closed of the removed
\* connection is set next; the connection has left the map by then.)
RemoveDelete(c, userID, userType) ==
    LET k == ConnectionID(userType, userID)
    IN  /\ ws.g[c].pc = "idle"
        /\ ws' = IF ws.connections[k] # 0
                   THEN [ws EXCEPT !.connections[k] = 0,
                                   !.g[c] = [pc |-> "deleted", key |-> k]]
                   ELSE ws
        /\ UNCHANGED <<poolVars, retry, ini, cb, tx>>

\* config.go line 111: atomic.AddInt64(&wm.connectionCount, -1).
RemoveCount(c) ==
    /\ ws.g[c].pc = "deleted"
    /\ ws' = [ws EXCEPT !.connectionCount = @ - 1,
                        !.g[c] = [pc |-> "idle", key |-> "none"]]
    /\ UNCHANGED <<poolVars, retry, ini, cb, tx>>

\* config.go lines 200-202: GetConnectionCount().
GetConnectionCount == ws.connectionCount

NextSockets ==
    \/ \E c \in Clients, id \in UserIDs, ut \in UserTypes : AddStore(c, id, ut)
    \/ \E c \in Clients : AddCount(c)
    \/ \E c \in Clients, id \in UserIDs, ut \in UserTypes :
         RemoveDelete(c, id, ut)
    \/ \E c \in Clients : RemoveCount(c)

SpecSockets == Init /\ [][NextSockets]_vars

\* ------------------------------------ ExecuteTransaction, WithEntTransaction
\* part_007 lines 28-54 and server.go lines 60-118 have the same steps; in
\* WithEntTransaction Begin is db.Tx(ctx) and Commit and Rollback are the
\* methods of the EntTx it returns (the span records nothing the helper
\* acts on).

\* The helper w is called.
TxStart(w) ==
    /\ tx[w].pc \in {"idle", "done"}
    /\ tx' = [tx EXCEPT ![w] = [NoTx EXCEPT !.pc = "begin"]]
    /\ UNCHANGED <<poolVars, retry, ini, cb, ws>>

\* part_007 lines 30-33, server.go lines 68-75: Begin; its error is
\* returned wrapped, before the deferred function is set up.
TxBegin(w, b) ==
    /\ tx[w].pc = "begin"
    /\ tx' = [tx EXCEPT ![w] =
                IF b = "nil"
                  THEN [@ EXCEPT !.begin = b, !.pc = "fn"]
                  ELSE [@ EXCEPT !.begin = b, !.pc = "done",
                                 !.res = [wrap |-> "begin", err |-> b]]]
    /\ UNCHANGED <<poolVars, retry, ini, cb, ws>>

\* part_007 line 42, server.go line 92: the function is run; it returns
\* nil or an error, or panics.
TxFn(w, f) ==
    /\ tx[w].pc = "fn"
    /\ tx' = [tx EXCEPT ![w] =
                [@ EXCEPT !.fn = f, !.fnRuns = @ + 1,
                          !.pc = CASE f = "nil" -> "commit"
                                   [] f = "panic" -> "recover"
                                   [] OTHER -> "rollback"]]
    /\ UNCHANGED <<poolVars, retry, ini, cb, ws>>

\* part_007 lines 49-53, server.go lines 106-117: Commit; nil is returned
\* after nil, its error wrapped, and a panic reaches the deferred function.
TxCommit(w, c) ==
    /\ tx[w].pc = "commit"
    /\ tx' = [tx EXCEPT ![w] =
                [@ EXCEPT !.commit = c, !.commits = @ + 1,
                          !.pc = IF c = "panic" THEN "recover" ELSE "done",
                          !.res = CASE c = "nil" -> [wrap |-> "none", err |-> "nil"]
                                    [] c = "panic" -> NoRes
                                    [] OTHER -> [wrap |-> "commit", err |-> c]]]
    /\ UNCHANGED <<poolVars, retry, ini, cb, ws>>

\* part_007 lines 43-46, server.go lines 97-103: Rollback after the
\* function's error; after nil the function's error is returned as it is,
\* after an error it is returned wrapped, and a panic reaches the deferred
\* function.
TxRollback(w, r) ==
    /\ tx[w].pc = "rollback"
    /\ tx' = [tx EXCEPT ![w] =
                [@ EXCEPT !.rollback = r, !.rollbacks = @ + 1,
                          !.pc = IF r = "panic" THEN "recover" ELSE "done",
                          !.res = CASE r = "nil" -> [wrap |-> "none", err |-> tx[w].fn]
                                    [] r = "panic" -> NoRes
                                    [] OTHER -> [wrap |-> "rollback",
                                                 err |-> tx[w].fn]]]
    /\ UNCHANGED <<poolVars, retry, ini, cb, ws>>

\* Mutant: the deferred function raises the panic again without Rollback.
RecoveredNoRollback(t) ==
    [t EXCEPT !.pc = "done", !.res = [wrap |-> "panic", err |-> "panic"]]

\* part_007 lines 35-40, server.go lines 81-90: the deferred function with
\* a panic: Rollback is called, whatever it returns is dropped, and the
\* panic is raised again.
Recovered(t) ==
    [t EXCEPT !.rollbacks = @ + 1, !.pc = "done",
              !.res = [wrap |-> "panic", err |-> "panic"]]

TxRecover(w) ==
    /\ tx[w].pc = "recover"
    /\ tx' = [tx EXCEPT ![w] = Recovered(@)]
    /\ UNCHANGED <<poolVars, retry, ini, cb, ws>>

NextTx ==
    \/ \E w \in TxCalls : TxStart(w)
    \/ \E w \in TxCalls, b \in {"nil", "err"} : TxBegin(w, b)
    \/ \E w \in TxCalls, f \in {"nil", "panic"} \cup FnErrors : TxFn(w, f)
    \/ \E w \in TxCalls, c \in {"nil", "err", "panic"} : TxCommit(w, c)
    \/ \E w \in TxCalls, r \in {"nil", "err", "panic"} : TxRollback(w, r)
    \/ \E w \in TxCalls : TxRecover(w)

SpecTx == Init /\ [][NextTx]_vars

\* ---------------------------------------------------------- specification
ThreadStep(t) ==
    \/ \E n \in Names : Invoke(t, n)
    \/ Lookup(t)
    \/ Touch(t)
    \/ Evict(t)
    \/ Dial(t)
    \/ Insert(t)

Next ==
    \/ \E t \in Threads : ThreadStep(t)
    \/ \E t \in Threads : HandleClose(t)
    \/ ClockTick
    \/ MonStop
    \/ MonTick
    \/ MonNext
    \/ MonGetState
    \/ MonEvictShutdown
    \/ MonTFCheck
    \/ MonEvictTF
    \/ MonUpdate
    \/ CloseStop
    \/ CloseWait
    \/ CloseTeardown
    \/ InitStart
    \/ InitReturn

Spec == Init /\ [][Next]_vars

\* Every goroutine that runs GetServiceConnectionWithContext keeps being
\* scheduled: none of its steps waits for anything but connsMutex, which is
\* held for a bounded section only, and grpc.DialContext and waitForReady
\* end at the latest with their timeouts (lines 210 and 223).
SpecLive == Spec /\ \A t \in Threads : WF_vars(ThreadStep(t))

\* The pool with callers of the diagnostic functions as well.
NextDiag ==
    \/ Next
    \/ \E n \in Names : GetConnectionInfo(n)
    \/ GetAllConnections

SpecDiag == Init /\ [][NextDiag]_vars

\* GetServiceConnection(n) called while Close() is running or after it has
\* returned: close(c.stopMonitor) has been reached.
InvokeLate(t, n) ==
    /\ stopClosed
    /\ Invoke(t, n)

ThreadStepLate(t) ==
    \/ \E n \in Names : InvokeLate(t, n)
    \/ Lookup(t)
    \/ Touch(t)
    \/ Evict(t)
    \/ Dial(t)
    \/ Insert(t)

\* The pool whose callers all arrive during or after Close().
NextLate ==
    \/ \E t \in Threads : ThreadStepLate(t)
    \/ \E t \in Threads : HandleClose(t)
    \/ ClockTick
    \/ MonStop
    \/ MonTick
    \/ MonNext
    \/ MonGetState
    \/ MonEvictShutdown
    \/ MonTFCheck
    \/ MonEvictTF
    \/ MonUpdate
    \/ CloseStop
    \/ CloseWait
    \/ CloseTeardown
    \/ InitStart
    \/ InitReturn

SpecLate == Init /\ [][NextLate]_vars

\* The steps of checkAndReconnectConnections after the snapshot.
MonPass ==
    \/ MonNext
    \/ MonGetState
    \/ MonEvictShutdown
    \/ MonTFCheck
    \/ MonEvictTF
    \/ MonUpdate

\* The monitor goroutine and the goroutine in Close() keep being scheduled.
\* A pass waits for connsMutex only, which no goroutine holds across a
\* blocking call; the select of the monitor (lines 499-507) picks at random
\* among its ready cases, so the stop cases, ready from close(c.stopMonitor)
\* on, are taken at one of the visits of the select (strong fairness);
\* monitorWg.Wait() returns once the monitor is done, and the Lock() of
\* Close() is granted.
SpecClose ==
    /\ Spec
    /\ WF_vars(MonPass)
    /\ SF_vars(MonStop)
    /\ WF_vars(CloseWait)
    /\ WF_vars(CloseTeardown)

\* ------------------------------------------------------------------ claims
\* The steps of the goroutines, recognised by their program counters.
LookupStep(t) == th[t].pc = "lookup" /\ th'[t].pc # "lookup"

TouchStep(t) == th[t].pc = "touch" /\ th'[t].pc = "done"

EvictStep(t) == th[t].pc = "evict" /\ th'[t].pc # "evict"

TeardownStep == cl.pc = "teardown" /\ cl'.pc = "idle"

CloseReturned == cl.calls >= 1 /\ cl.pc = "idle"

PoolEmpty == \A n \in Names : conns[n] = NoChan /\ connInfo[n] = NoInfo

\* The two halves of C1: what holds of a call for an unknown name in every
\* state, and what its lookup step does.
C1_State ==
    /\ conns[Unknown] = NoChan
    /\ connInfo[Unknown] = NoInfo
    /\ \A t \in Threads :
         (th[t].pc # "idle" /\ th[t].name = Unknown) =>
           /\ th[t].pc \in {"lookup", "done"}
           /\ chan[t] = "None"
           /\ th[t].pc = "done" => (th[t].res = "notfound" /\ th[t].ret = NoChan)

C1_Step ==
    \A t \in Threads :
      (th[t].name = Unknown /\ LookupStep(t)) =>
        /\ conns' = conns
        /\ connInfo' = connInfo
        /\ chan' = chan
        /\ th'[t].pc = "done"
        /\ th'[t].res = "notfound"

\* C1: GetServiceConnection(name) for a name that is not in the Service
\* Directory returns the "not found in configuration" error, dials nothing
\* and leaves the pool as it is, whatever the pool holds.
C1_UnknownNameNotFound == [](C1_State) /\ [][C1_Step]_vars

\* C1 witness: the call for the unknown name has returned "not found" while
\* the pool holds an entry.
C1_Witness ==
    \E t \in Threads :
      /\ th[t].pc = "done"
      /\ th[t].name = Unknown
      /\ th[t].res = "notfound"
      /\ \E n \in Services : conns[n] # NoChan

\* C2: a second Close() on the same pool does not panic.
C2_SecondCloseNoPanic == cl.calls >= 2 => ~panicked

\* C3: once Close() has returned, the pool is empty (GetAllConnections()
\* returns an empty map) in every later state, and every channel that
\* GetServiceConnection had handed out before is closed.
C3_AfterCloseEmptyAndClosed ==
    CloseReturned =>
      /\ PoolEmpty
      /\ \A c \in lastClose.held : chan[c] = "Shutdown"

\* C4: two concurrent GetServiceConnection calls for one valid name that was
\* never seen before (both lookups miss) end with one entry for the name and
\* with no dialed channel left open outside the pool.
C4_ConcurrentFirstCalls ==
    \A t, u \in Threads :
      ( /\ t # u
        /\ th[t].pc = "done" /\ th[u].pc = "done"
        /\ th[t].kind = "caller" /\ th[u].kind = "caller"
        /\ th[t].name = th[u].name
        /\ th[t].name \in Services
        /\ th[t].old = NoChan /\ th[u].old = NoChan
        /\ th[t].res = "ok" /\ th[u].res = "ok"
        /\ cl.calls = 0 )
      => /\ conns[th[t].name] # NoChan
         /\ \A c \in {t, u} : chan[c] = "Open" => conns[th[t].name] = c

\* C5: an entry is inserted for a name only when the pool holds no entry for
\* that name: the previous one was removed (and closed) before.
C5_InsertOnlyWhenAbsent ==
    [][\A n \in Names :
         (conns'[n] # conns[n] /\ conns'[n] # NoChan) => conns[n] = NoChan]_vars

\* What C6 asks of the lookup step and of the fast-path step.
C6_Step ==
    \A t \in Threads :
      /\ (LookupStep(t) /\ th'[t].old # NoChan /\ th'[t].state \in Healthy)
           => th'[t].pc = "touch"
      /\ TouchStep(t) =>
           /\ th[t].state \in Healthy
           /\ th'[t].res = "ok"
           /\ th'[t].ret = th[t].old
           /\ chan' = chan
           /\ conns' = conns
           /\ \A m \in Names \ {th[t].name} : connInfo'[m] = connInfo[m]
           /\ connInfo[th[t].name] # NoInfo =>
                /\ connInfo'[th[t].name].Age = 0
                /\ connInfo'[th[t].name].Conn = connInfo[th[t].name].Conn

C7_State ==
    \A t \in Threads :
      (th[t].pc \in {"dial", "wait"} /\ th[t].old # NoChan) =>
        chan[th[t].old] = "Shutdown"

C7_Step ==
    \A t \in Threads :
      /\ (LookupStep(t) /\ th'[t].old # NoChan /\ th'[t].state \notin Healthy)
           => th'[t].pc = "evict"
      /\ EvictStep(t) =>
           /\ conns'[th[t].name] = NoChan
           /\ connInfo'[th[t].name] = NoInfo
           /\ chan'[th[t].old] = "Shutdown"
           /\ chan'[t] = "None"
           /\ th'[t].pc \in {"dial", "done"}
      /\ (th[t].pc \in {"evict", "dial", "wait"} /\ th[t].old # NoChan)
           => th'[t].ret # th[t].old

\* C7: a lookup that finds a cached entry in TransientFailure or Shutdown
\* removes the entry and closes its channel before the dial starts, and the
\* call never returns the stale handle.
C7_StaleEvictedBeforeDial == [](C7_State) /\ [][C7_Step]_vars

\* C7 witness: a call that met a stale entry has returned its own new
\* channel, which is in the pool, and the stale channel is closed.
C7_Witness ==
    \E t \in Threads :
      /\ th[t].pc = "done"
      /\ th[t].old # NoChan
      /\ th[t].ret = t
      /\ conns[th[t].name] = t
      /\ chan[th[t].old] = "Shutdown"

\* The first name of the order whose channel was closed already.
RECURSIVE FirstFailed(_, _)
FirstFailed(order, i) ==
    IF i > Len(order) THEN "nil"
    ELSE IF chan[conns[order[i]]] = "Shutdown" THEN order[i]
    ELSE FirstFailed(order, i + 1)

\* What C8 asks of the teardown step of Close().
C8_Step ==
    TeardownStep =>
      /\ \A n \in Names : conns[n] # NoChan => chan'[conns[n]] = "Shutdown"
      /\ \A n \in Names : conns'[n] = NoChan /\ connInfo'[n] = NoInfo
      /\ {lastClose'.order[i] : i \in 1..Len(lastClose'.order)}
           = {n \in Names : conns[n] # NoChan}
      /\ Len(lastClose'.order) = Cardinality({n \in Names : conns[n] # NoChan})
      /\ lastClose'.closed = {conns[n] : n \in {m \in Names : conns[m] # NoChan}}
      /\ lastClose'.err = FirstFailed(lastClose'.order, 1)

\* C8: Close() closes every channel that is in the pool when it takes the
\* lock, also after a failed close, empties both maps and returns the error
\* of the first channel whose close failed (nil when none failed).
C8_CloseAllFirstError == [][C8_Step]_vars

\* C8 witness: Close() has returned the error of the first of two channels,
\* and both are closed.
C8_Witness ==
    /\ CloseReturned
    /\ Len(lastClose.order) = 2
    /\ lastClose.err = lastClose.order[1]
    /\ Cardinality(lastClose.closed) = 2
    /\ \A c \in lastClose.closed : chan[c] = "Shutdown"

\* C9: Close() closes no pooled channel and clears no map before the monitor
\* goroutine has exited: no monitor iteration inspects the pool once the
\* teardown has started.
C9_TeardownAfterMonitorExit ==
    /\ (cl.pc = "teardown" \/ CloseReturned) => mon.pc = "exited"
    /\ mon.pc # "exited" => lastClose = NoClose

\* C9 witness: Close() waits while a monitor iteration is inspecting an
\* entry of the pool.
C9_Witness ==
    /\ cl.pc = "wait"
    /\ ~panicked
    /\ mon.pc \in {"getstate", "tfcheck", "evictTF", "evictSD", "update"}
    /\ conns[mon.cur] # NoChan

\* The monitor's check of an entry it read as TransientFailure.
TFCheckStep == mon.pc = "tfcheck" /\ mon'.pc # "tfcheck"

TFEvictStep == mon.pc = "evictTF" /\ mon'.pc # "evictTF"

Redials == {t \in Threads : th[t].kind = "redial"}

\* C10 as stated: measured from lastUsedAt, a TransientFailure entry is not
\* evicted at the first tick (30 s) and is evicted by the second (60 s).
C10_EvictedBySecondTick ==
    [][(TFCheckStep /\ connInfo[mon.cur] # NoInfo) =>
         /\ connInfo[mon.cur].Age <= healthCheckInterval => mon'.pc # "evictTF"
         /\ connInfo[mon.cur].Age >= 2 * healthCheckInterval
              => mon'.pc = "evictTF"]_vars

\* What the amended C10 asks of the steps of the monitor.
C10_Step ==
    /\ TFCheckStep =>
         (mon'.pc = "evictTF" <=>
            /\ connInfo[mon.cur] # NoInfo
            /\ connInfo[mon.cur].Age >= 3 * healthCheckInterval)
    /\ (mon'.pc = "evictTF" /\ mon.pc # "evictTF") => mon.pc = "tfcheck"
    /\ TFEvictStep =>
         /\ conns'[mon.cur] = NoChan
         /\ connInfo'[mon.cur] = NoInfo
         /\ chan'[mon.conn] = "Shutdown"
         /\ \E t \in Threads :
              /\ th[t].pc = "idle"
              /\ th'[t].pc = "lookup"
              /\ th'[t].kind = "redial"
              /\ th'[t].name = mon.cur
              /\ \A u \in Threads \ {t} : th'[u] = th[u]
    /\ ~TFEvictStep => {t \in Threads : th'[t].kind = "redial"} = Redials

\* C10 amended: the monitor evicts an entry it reads as TransientFailure
\* exactly when more than two intervals (60 s) have passed since lastUsedAt:
\* not at the first or second tick after lastUsedAt, and at the third (90
\* s); the eviction deletes the entry, closes the channel and starts exactly
\* one redial.
C10_EvictedAfterTwoIntervals == [][C10_Step]_vars

\* C10 witness: the monitor has evicted an entry and its redial is running.
C10_Witness ==
    \E t \in Threads :
      /\ th[t].kind = "redial"
      /\ th[t].pc = "lookup"
      /\ conns[th[t].name] = NoChan
      /\ mon.pc = "loop"

\* The steps of a monitor pass, recognised by the monitor's position.
SDReadStep == mon.pc = "getstate" /\ mon'.pc # "getstate"

SDEvictStep == mon.pc = "evictSD" /\ mon'.pc # "evictSD"

\* What C11 asks of the monitor's steps: reading Shutdown leads to the
\* eviction and to nothing else, and the eviction is the next thing the
\* pass does.
C11_Step ==
    /\ (SDReadStep /\ chan[mon.conn] = "Shutdown") => mon'.pc = "evictSD"
    /\ (mon'.pc = "evictSD" /\ mon.pc # "evictSD") =>
         (SDReadStep /\ chan[mon.conn] = "Shutdown")
    /\ SDEvictStep =>
         /\ conns'[mon.cur] = NoChan
         /\ connInfo'[mon.cur] = NoInfo
         /\ chan'[mon.conn] = "Shutdown"
         /\ th' = th
         /\ mon'.pc = "loop"
         /\ \A n \in Names \ {mon.cur} :
              conns'[n] = conns[n] /\ connInfo'[n] = connInfo[n]

\* C11: a monitor pass that reads a pooled entry as Shutdown removes the
\* name from both maps and closes the channel as the next step of that
\* pass, before it looks at another name or returns to the select, and
\* starts no goroutine for it.
C11_ShutdownEvictedSamePass ==
    /\ [](mon.pc = "evictSD" => chan[mon.conn] = "Shutdown")
    /\ [][C11_Step]_vars

\* C11 witness: an entry whose channel its caller had closed is gone from
\* both maps while no caller evicted anything, no redial was started and
\* Close() was not called: the monitor removed it.
C11_Witness ==
    \E t \in Threads :
      /\ th[t].pc = "done"
      /\ th[t].res = "ok"
      /\ th[t].ret = t
      /\ chan[t] = "Shutdown"
      /\ conns[th[t].name] = NoChan
      /\ connInfo[th[t].name] = NoInfo
      /\ cl.calls = 0
      /\ mon.pc = "loop"
      /\ \A u \in Threads : th[u].old = NoChan /\ th[u].kind # "redial"
\* The monitor's update of an entry it read as Ready or Idle.
UpdateStep == mon.pc = "update" /\ mon'.pc # "update"

\* What C12 asks of the positions of a pass: the evictions are reached from
\* a Shutdown or TransientFailure read only, the update from a Ready or
\* Idle read only.
C12_State ==
    /\ mon.pc \in {"evictSD", "evictTF", "tfcheck"} => mon.state \notin Healthy
    /\ mon.pc = "update" => mon.state \in {"Ready", "Idle"}

\* What C12 asks of the steps of a pass: the read changes nothing, the
\* update writes State of the entry under the name and nothing else, and
\* the monitor removes or closes in its two evictions only.
C12_Step ==
    /\ SDReadStep => /\ conns' = conns
                     /\ connInfo' = connInfo
                     /\ chan' = chan
                     /\ th' = th
    /\ UpdateStep =>
         /\ conns' = conns
         /\ chan' = chan
         /\ th' = th
         /\ \A n \in Names \ {mon.cur} : connInfo'[n] = connInfo[n]
         /\ connInfo'[mon.cur].Conn = connInfo[mon.cur].Conn
         /\ connInfo'[mon.cur].Age = connInfo[mon.cur].Age
         /\ connInfo[mon.cur] # NoInfo => connInfo'[mon.cur].State = mon.state
    /\ (mon' # mon /\ (conns' # conns \/ chan' # chan)) =>
         mon.pc \in {"evictSD", "evictTF"}

\* C12: a monitor pass does not remove, close or replace an entry it reads
\* as Ready, Idle or Connecting: after Ready or Idle it writes the State of
\* the entry stored under the name and nothing else, after Connecting it
\* changes nothing.
C12_HealthyEntriesKept == [](C12_State) /\ [][C12_Step]_vars

\* C12 witness: the monitor is about to write a State that differs from
\* the stored one into an entry it read as Ready or Idle.
C12_Witness ==
    /\ mon.pc = "update"
    /\ conns[mon.cur] = mon.conn
    /\ connInfo[mon.cur].State # mon.state
    /\ connInfo[mon.cur].Age > 0
Min(a, b) == IF a <= b THEN a ELSE b

\* C13: the delay slept before retry attempt i+1 is min(b * 2^i, c) for
\* the base delay b and the cap c; here c = 10 s, for which b = 1 s gives
\* 1, 2, 4, 8, 10, 10.
C13_CappedBackoff ==
    \A k \in 1..Len(retry.slept) :
      retry.slept[k] = Min(retry.baseDelay * 2^(k - 1), 10)
\* C14: when every dial attempt of a call for a configured name fails, the
\* call has made exactly maxRetries attempts when it returns its dial
\* failure, and nothing was inserted: its channel is not in the pool.
C14_AllAttemptsMade ==
    \A t \in Threads :
      (th[t].pc = "done" /\ th[t].res = "dialfail") =>
        /\ th[t].attempts = defaultMaxRetries
        /\ th[t].ret = NoChan
        /\ \A n \in Names : conns[n] # t

\* C15: a call whose dials fail twice and then succeed returns the handle
\* of the third attempt: it does not return after one or two failed dials
\* unless a later dial has succeeded, and it never dials a fourth time.
C15_ThirdAttemptReturned ==
    \A t \in Threads :
      /\ (th[t].pc = "done" /\ th[t].res = "dialfail") => th[t].attempts >= 3
      /\ th[t].attempts <= 3
\* The goroutines of InitializeAllConnections whose call succeeded.
InitSucceeded == {t \in InitThreads : th[t].pc = "done" /\ th[t].res = "ok"}

InitStartStep == ini.pc = "idle" /\ ini'.pc = "wait"

InitReturnStep == ini.pc = "wait" /\ ini'.pc = "done"

\* One call was started for every name of the Service Directory.
OneCallPerName ==
    /\ \A n \in Services : \E t \in InitThreads : th[t].name = n
    /\ \A t, u \in InitThreads : th[t].name = th[u].name => t = u
    /\ \A t \in InitThreads : th[t].name \in Services

\* What InitializeAllConnections returned agrees with the calls.
InitResultRight ==
    /\ \A t \in InitThreads : th[t].pc = "done"
    /\ ini.count = Cardinality(InitThreads \ InitSucceeded)
    /\ ini.res = "nil" <=> InitThreads = InitSucceeded
    /\ ini.res = "error" <=> InitThreads # InitSucceeded

\* C16 as stated: InitializeAllConnections starts one call per name, waits
\* for all of them, returns nil exactly when none failed and otherwise the
\* number of failed calls, and when it returns every name whose call
\* succeeded is in the pool.
C16_AllSucceededPooled ==
    [][/\ InitStartStep => OneCallPerName'
       /\ InitReturnStep =>
            /\ InitResultRight'
            /\ \A t \in InitSucceeded : conns'[th[t].name] # NoChan]_vars

\* Nothing has removed an entry from the pool or closed a returned handle:
\* Close() was not called, no caller and no monitor pass evicted.
Undisturbed ==
    /\ cl.calls = 0
    /\ \A u \in Threads : th[u].old = NoChan /\ th[u].kind # "redial"
    /\ \A u \in Threads : th[u].ret # NoChan => chan[th[u].ret] = "Open"

C16_State ==
    /\ ini.pc = "idle" => InitThreads = {}
    /\ ini.pc # "idle" => OneCallPerName
    /\ ini.pc = "done" =>
         /\ InitResultRight
         /\ Undisturbed => \A t \in InitSucceeded : conns[th[t].name] # NoChan

C16_Step ==
    /\ InitStartStep => \A t \in Threads : th'[t] # th[t] => th'[t].pc = "lookup"
    /\ \A t \in InitThreads :
         (th[t].pc = "wait" /\ th'[t].pc = "done" /\ th'[t].res = "ok") =>
           /\ th'[t].ret = t
           /\ conns'[th[t].name] = t
    /\ ini' # ini => InitStartStep \/ InitReturnStep

\* C16 amended: InitializeAllConnections starts one call per name, waits
\* for all of them, returns nil exactly when none failed and otherwise the
\* number of failed calls; every call that succeeded by dialing has stored
\* its name in the pool when it returns, and the name is in the pool when
\* InitializeAllConnections returns if no Close() and no eviction took
\* place meanwhile.
C16_InitializeAll == [](C16_State) /\ [][C16_Step]_vars

\* C16 witness: InitializeAllConnections has returned an error counting one
\* failure while the other name is in the pool.
C16_Witness ==
    /\ ini.pc = "done"
    /\ ini.res = "error"
    /\ ini.count = 1
    /\ Undisturbed
    /\ \E t \in InitSucceeded : conns[th[t].name] = t
\* The step with which a call returns to its caller.
ReturnStep(t) == th[t].pc \notin {"idle", "done"} /\ th'[t].pc = "done"

\* C17 as stated: a call for a name of the Service Directory returns a
\* handle, and the handle is in state Ready, Idle or Connecting (so it is
\* not a closed channel, whose state is Shutdown).
C17_ReturnsHealthyHandle ==
    [][\A t \in Threads :
         (ReturnStep(t) /\ th[t].name \in Services) =>
           /\ th'[t].res = "ok"
           /\ chan'[th'[t].ret] = "Open"]_vars

\* What the amended C17 asks of the returning step: an error, or a handle
\* that the call itself read as Ready, Idle or Connecting, at the lookup
\* when it is the cached one and at the final check when it is new.
C17_Step ==
    \A t \in Threads :
      (ReturnStep(t) /\ th[t].name \in Services) =>
        \/ /\ th'[t].res \in {"dialfail", "notready", "badstate"}
           /\ th'[t].ret = NoChan
        \/ /\ th'[t].res = "ok"
           /\ th[t].pc = "touch"
           /\ th[t].state \in Healthy
           /\ th'[t].ret = th[t].old
        \/ /\ th'[t].res = "ok"
           /\ th[t].pc = "wait"
           /\ th'[t].ret = t
           /\ chan'[t] = "Open"
           /\ connInfo'[th[t].name].Conn = t
           /\ connInfo'[th[t].name].State \in Healthy

\* C17 amended: a call for a name of the Service Directory eventually
\* returns (unless the process panics), and it returns either an error or
\* a handle that it read as Ready, Idle or Connecting before returning it.
C17_EventuallyReturns ==
    /\ \A t \in Threads :
         (th[t].pc \notin {"idle", "done"}) ~> (th[t].pc = "done" \/ panicked)
    /\ [][C17_Step]_vars

\* C17 witness: one call for a name has returned its new handle, another
\* call for a configured name has returned the error of the ready-wait.
C17_Witness ==
    \E t, u \in Threads :
      /\ th[t].pc = "done" /\ th[t].res = "ok" /\ th[t].ret = t
      /\ th[u].pc = "done" /\ th[u].res = "notready"
      /\ th[u].name \in Services
\* A step that writes a map or a field of the entry stored under n (the
\* clock making LastUsed older is no write).
Written(n) ==
    \/ conns'[n] # conns[n]
    \/ connInfo'[n].Conn # connInfo[n].Conn
    \/ connInfo'[n].State # connInfo[n].State
    \/ connInfo'[n].Age < connInfo[n].Age

\* C18: the steps of a call that hits a healthy cached entry hold the read
\* lock only, never the write lock, and every step that inserts, evicts,
\* clears or writes a field of a pooled entry holds the write lock.
C18_LockDiscipline ==
    [][/\ \A t \in Threads : (LookupStep(t) \/ TouchStep(t)) => lk' = "R"
       /\ (\E n \in Names : Written(n)) => lk' = "W"]_vars

\* A step of GetConnectionInfo or GetAllConnections: it holds the read lock
\* and is no step of a caller or of the monitor.
DiagStep == lk' = "R" /\ th' = th /\ mon' = mon

\* C19: GetConnectionInfo and GetAllConnections leave the pool maps and
\* every field of every pooled entry unchanged.
C19_DiagnosticsReadOnly ==
    [][DiagStep => \A n \in Names : ~Written(n)]_vars
\* The monitor takes a tick from ticker.C and starts a pass.
MonTickStep == mon.pc = "select" /\ mon'.pc = "loop"

\* Close() reaches close(c.stopMonitor).
StopSignalStep == cl.pc = "idle" /\ cl'.pc = "wait"

\* C20: once Close() has signalled the stop, the monitor loop starts no new
\* checkAndReconnectConnections pass, and the stop is signalled once only.
C20_NoIterationAfterStop ==
    [][/\ stopClosed => ~MonTickStep
       /\ StopSignalStep => ~stopClosed]_vars

\* The results with which a call reports a failed dial or ready-wait.
DialErrors == {"dialfail", "notready", "badstate"}

\* The step with which a call returns such an error.
FailStep(t) == ReturnStep(t) /\ th'[t].res \in DialErrors

\* What C21 asks of a call that has failed, and of the ready-wait: a wait
\* whose last state read is TransientFailure or Shutdown does not succeed.
C21_State ==
    /\ \A t \in Threads :
         (th[t].pc = "done" /\ th[t].res \in DialErrors) =>
           /\ th[t].ret = NoChan
           /\ chan[t] # "Open"
           /\ \A n \in Names : conns[n] # t /\ connInfo[n].Conn # t
    /\ \A s1, s2 \in Live \cup {"Shutdown"} :
         \A s3 \in {"TransientFailure", "Shutdown"} :
           /\ ReadyOutcome(s1, s2, s3) \in DialErrors
           /\ s1 \notin {"Ready", "Idle"} => ReadyOutcome(s1, s3, s2) \in DialErrors

\* What C21 asks of the failing step: the error goes into the result of the
\* goroutine that dialed, the dialed channel is closed, the pool is left
\* alone, and the failure of a redial reaches no caller and not
\* InitializeAllConnections.
C21_Step ==
    \A t \in Threads :
      FailStep(t) =>
        /\ th[t].pc \in {"dial", "wait"}
        /\ th'[t].ret = NoChan
        /\ th'[t].kind = th[t].kind
        /\ conns' = conns
        /\ connInfo' = connInfo
        /\ th[t].pc = "dial" => chan'[t] = "None"
        /\ th[t].pc = "wait" => chan'[t] = "Shutdown"
        /\ \A u \in Threads \ {t} : th'[u] = th[u]
        /\ th[t].kind = "redial" => (ini' = ini /\ Held' = Held)

\* C21: a call whose dial or ready-wait fails (dial error, or a last state
\* read of TransientFailure or Shutdown) returns the error to the caller
\* that made it, closes the channel it dialed and inserts nothing; the
\* failure of a redial started by the monitor is returned to no caller.
C21_FailurePropagation == [](C21_State) /\ [][C21_Step]_vars

\* C21 witness: a caller has got the error of the ready-wait for a
\* configured name, its channel is closed and the name is not in the pool.
C21_Witness ==
    \E t \in Threads :
      /\ th[t].pc = "done"
      /\ th[t].kind = "caller"
      /\ th[t].res \in {"notready", "badstate"}
      /\ chan[t] = "Shutdown"
      /\ conns[th[t].name] = NoChan
      /\ connInfo[th[t].name] = NoInfo

\* C22: a GetServiceConnection call for a configured name that is made
\* while Close() is running or after it has returned fails with
\* ShutdownInProgress, dials nothing and inserts nothing (under SpecLate
\* every caller arrives that late).
C22_ShutdownInProgress ==
    \A t \in Threads :
      (th[t].kind = "caller" /\ th[t].name \in Services) =>
        /\ chan[t] = "None"
        /\ \A n \in Names : conns[n] # t
        /\ th[t].pc = "done" => (th[t].res = "shutdown" /\ th[t].ret = NoChan)

\* A step that stores a channel under the name n.
InsertStep(n) == conns'[n] # conns[n] /\ conns'[n] # NoChan

\* What C23 asks of the ready-wait: a channel read as Connecting after the
\* timeout and at the final check is accepted, and whatever is accepted was
\* read as Ready, Idle or Connecting at the final check.
C23_State ==
    /\ \A s1 \in {"Connecting", "TransientFailure"} :
         ReadyOutcome(s1, "Connecting", "Connecting") = "ok"
    /\ \A s1, s2, s3 \in Live \cup {"Shutdown"} :
         ReadyOutcome(s1, s2, s3) = "ok" => s3 \in Healthy
    /\ \A t \in Threads :
         th[t].pc = "touch" => th[t].state \in Healthy /\ th[t].old # NoChan

\* What C23 asks of the steps that return a handle or insert an entry: the
\* handle is the cached one, read as healthy at the lookup, or the new one,
\* stored with the healthy state of the final check; entries are inserted
\* by such a return only.
C23_Step ==
    /\ \A t \in Threads :
         (ReturnStep(t) /\ th'[t].res = "ok") =>
           \/ /\ th[t].pc = "touch"
              /\ th[t].state \in Healthy
              /\ th'[t].ret = th[t].old
              /\ conns' = conns
           \/ /\ th[t].pc = "wait"
              /\ th'[t].ret = t
              /\ conns'[th[t].name] = t
              /\ connInfo'[th[t].name].Conn = t
              /\ connInfo'[th[t].name].State \in Healthy
              /\ connInfo'[th[t].name].State \in GetState(t)
    /\ \A n \in Names :
         InsertStep(n) =>
           \E t \in Threads :
             /\ th[t].pc = "wait"
             /\ th[t].name = n
             /\ conns'[n] = t
             /\ th'[t].res = "ok"
             /\ connInfo'[n].State \in Healthy

\* C23: every handle GetServiceConnection returns without error and every
\* entry it inserts was read by that call as Ready, Idle or Connecting at
\* its last state read; a new channel that is still Connecting when the
\* ready-wait times out is inserted and returned.
C23_AcceptedStates == [](C23_State) /\ [][C23_Step]_vars

\* C23 witness: a call has returned its new channel, which is in the pool
\* with the state Connecting.
C23_Witness ==
    \E t \in Threads :
      /\ th[t].pc = "done"
      /\ th[t].res = "ok"
      /\ th[t].ret = t
      /\ conns[th[t].name] = t
      /\ connInfo[th[t].name].Conn = t
      /\ connInfo[th[t].name].State = "Connecting"
      /\ chan[t] = "Open"

\* C24: in every state that a goroutine can observe (no goroutine is inside
\* a section under the write lock) conns and connInfo have the same keys,
\* and the Conn field of every metadata entry is the handle stored under
\* its key in conns.
C24_MapsAgree ==
    \A n \in Names :
      /\ conns[n] = NoChan <=> connInfo[n] = NoInfo
      /\ connInfo[n].Conn = conns[n]

\* C24 witness: one name holds the channel that replaced an evicted one,
\* with its metadata, and another name holds nothing in either map.
C24_Witness ==
    \E n, m \in Services :
      /\ conns[n] # NoChan
      /\ connInfo[n].Conn = conns[n]
      /\ th[conns[n]].old # NoChan
      /\ chan[th[conns[n]].old] = "Shutdown"
      /\ conns[m] = NoChan
      /\ connInfo[m] = NoInfo

\* A step that removes the entry stored under n.
RemoveStep(n) == conns[n] # NoChan /\ conns'[n] = NoChan

\* C25: whenever a step removes the entry of a name from the pool, the
\* channel that was stored under the name is closed by that step, and a
\* channel closed by an eviction is not in the pool afterwards.
C25_EvictionClosesStored ==
    [][/\ \A n \in Names : RemoveStep(n) => chan'[conns[n]] = "Shutdown"
       /\ \A t \in Threads :
            EvictStep(t) => \A n \in Names : conns'[n] # th[t].old
       /\ (SDEvictStep \/ TFEvictStep) =>
            \A n \in Names : conns'[n] # mon.conn]_vars

\* The model has no goroutine left for the redial that the monitor's
\* eviction starts (the code can always start one).
SlotsExhausted == mon.pc = "evictTF" /\ \A t \in Threads : th[t].pc # "idle"

\* Close() is waiting in c.monitorWg.Wait().
CloseWaiting == cl.pc = "wait" /\ ~panicked

\* What C26 asks of every state in which Close() waits: the monitor can
\* take its next step wherever it is, and Close() can go on once the
\* monitor is done.
C26_State ==
    /\ (CloseWaiting /\ mon.pc = "select") => ENABLED MonStop
    /\ (CloseWaiting /\ mon.pc \notin {"select", "exited"} /\ ~SlotsExhausted)
         => ENABLED MonPass
    /\ (CloseWaiting /\ mon.pc = "exited") => ENABLED CloseWait
    /\ (cl.pc = "teardown" /\ ~panicked) => ENABLED CloseTeardown

\* What C26 asks of the steps of Close(): it holds no lock when it signals
\* the stop and while it waits, and takes the write lock only when the
\* monitor is done.
C26_Step ==
    /\ StopSignalStep => lk' = "none"
    /\ (cl.pc = "wait" /\ cl'.pc = "teardown") =>
         (lk' = "none" /\ mon.pc = "exited")
    /\ TeardownStep => (lk' = "W" /\ mon.pc = "exited")

\* C26: Close() terminates wherever the monitor is when it is called, at
\* the select or inside a pass: the monitor exits and Close() returns, and
\* Close() holds no lock the monitor needs while it waits for the monitor.
C26_CloseTerminates ==
    /\ CloseWaiting ~> (CloseReturned \/ SlotsExhausted)
    /\ CloseWaiting ~> (mon.pc = "exited" \/ SlotsExhausted)
    /\ [](C26_State)
    /\ [][C26_Step]_vars

\* C26 witness: the one Close() has returned and the monitor has exited,
\* after a pass of the monitor that evicted an entry and started a redial;
\* the teardown closed a channel.
C26_Witness ==
    /\ CloseReturned
    /\ cl.calls = 1
    /\ ~panicked
    /\ mon.pc = "exited"
    /\ lastClose.order # <<>>
    /\ \E t \in Threads : th[t].kind = "redial"

\* A step of Execute that changes the breaker (a clock step adds one to
\* since, Execute leaves since or sets it to 0).
ExecuteStep == cb.made /\ cb' # cb /\ cb'.since # cb.since + 1

\* What C27 asks of a breaker at rest: an Execute that answered Unavailable
\* did not call the operation and left the breaker Open, and no Execute
\* calls the operation twice.
C27_State ==
    /\ cb.invoked \in {0, 1}
    /\ cb.res = "Unavailable" =>
         (cb.invoked = 0 /\ cb.state = "CircuitOpen")

C27_Step ==
    ExecuteStep =>
      /\ (cb.state = "CircuitOpen" /\ cb.since <= cb.timeout) =>
           /\ cb'.invoked = 0
           /\ cb'.res = "Unavailable"
           /\ cb'.failureCount = cb.failureCount
           /\ cb'.successCount = cb.successCount
           /\ cb'.state = cb.state
           /\ cb'.since = cb.since
      /\ (cb.state = "CircuitOpen" /\ cb.since > cb.timeout) =>
           /\ cb'.invoked = 1
           /\ cb'.at = "CircuitHalfOpen"
           /\ cb'.res \in {"nil", "err"}

\* C27: while the breaker is Open and no more than the timeout has passed
\* since the last failure, Execute does not call the operation, returns
\* Unavailable and leaves failureCount, successCount and state unchanged;
\* once more than the timeout has passed, the next Execute calls the
\* operation exactly once, in state HalfOpen.
C27_OpenRejects == [](C27_State) /\ [][C27_Step]_vars

\* C27 witness: Execute has answered Unavailable when exactly the timeout
\* had passed since the last failure, after earlier successes.
C27_Witness ==
    /\ cb.res = "Unavailable"
    /\ cb.timeout >= 1
    /\ cb.since = cb.timeout
    /\ cb.successCount >= 1
    /\ cb.state = "CircuitOpen"

\* What C28 asks of a breaker at rest.
C28_State ==
    /\ cb.state \in {"CircuitClosed", "CircuitOpen"}
    /\ (cb.state = "CircuitOpen" /\ cb.threshold >= 1) =>
         cb.failureCount >= cb.threshold

C28_Step ==
    ExecuteStep =>
      /\ ( /\ cb.threshold >= 1
           /\ cb.state = "CircuitClosed"
           /\ cb'.state = "CircuitOpen" ) =>
           /\ cb'.res = "err"
           /\ cb'.streak = cb.threshold
      /\ cb'.res = "nil" => cb'.failureCount = 0
      /\ (cb'.invoked = 1 /\ cb'.at = "CircuitHalfOpen" /\ cb'.res = "nil")
           => cb'.state = "CircuitClosed"
      /\ (cb'.invoked = 1 /\ cb'.at = "CircuitHalfOpen" /\ cb'.res = "err")
           => cb'.state = "CircuitOpen"

\* C28: a breaker with threshold t >= 1 goes from Closed to Open only with
\* the t-th failed Execute in a row, a success in between setting
\* failureCount back to 0; an operation called in HalfOpen closes the
\* breaker when it succeeds and opens it again when it fails.
C28_Transitions == [](C28_State) /\ [][C28_Step]_vars

\* C28 witness: a breaker with threshold 2 or more that had closed again
\* after a successful trial has been opened by a failed trial in HalfOpen.
C28_Witness ==
    /\ cb.threshold >= 2
    /\ cb.successCount >= 1
    /\ cb.at = "CircuitHalfOpen"
    /\ cb.res = "err"
    /\ cb.state = "CircuitOpen"
    /\ cb.streak > cb.threshold

\* C29: whenever no AddConnection or RemoveConnection call is under way,
\* whatever calls were made before, one after another or concurrently and
\* also for a pair that was registered already, GetConnectionCount() is
\* the number of entries in the connections map.
C29_CountMatchesEntries ==
    (\A c \in Clients : ws.g[c].pc = "idle") =>
      GetConnectionCount =
        Cardinality({k \in ConnectionIDs : ws.connections[k] # 0})

\* C30 as stated: after a successful Begin exactly one of Commit and
\* Rollback is called, once: Commit only after the function returned nil,
\* Rollback after it returned an error or panicked; after a failed Begin
\* neither is called and the function is not run; the function's error is
\* returned unchanged when Rollback succeeds.
C30_ExactlyOneOnce ==
    \A w \in TxCalls :
      tx[w].pc = "done" =>
        /\ tx[w].begin = "nil" =>
             /\ tx[w].commits + tx[w].rollbacks = 1
             /\ tx[w].commits = 1 => tx[w].fn = "nil"
             /\ tx[w].fn # "nil" => tx[w].rollbacks = 1
        /\ tx[w].begin # "nil" =>
             (tx[w].commits = 0 /\ tx[w].rollbacks = 0 /\ tx[w].fnRuns = 0)
        /\ (tx[w].fn \in FnErrors /\ tx[w].rollback = "nil") =>
             tx[w].res = [wrap |-> "none", err |-> tx[w].fn]

\* Commit or the Rollback after the function's error has panicked.
TxCallPanicked(w) == tx[w].commit = "panic" \/ tx[w].rollback = "panic"

\* The Rollback calls the amended C30 allows a finished call.
TxRollbacksDue(w) ==
    (IF tx[w].fn # "nil" THEN 1 ELSE 0) + (IF TxCallPanicked(w) THEN 1 ELSE 0)

\* C30 amended: after a successful Begin the function is run once; Commit
\* is called, once, exactly when the function returned nil, and Rollback
\* once when the function returned an error or panicked. When Commit or
\* that Rollback panics, the deferred function calls Rollback once more
\* before the panic goes on: after a panicking Commit both have been
\* called, after a panicking Rollback it has been called twice. Without
\* such a panic exactly one of the two is called, once. After a failed
\* Begin neither is called and the function is not run. The function's
\* error is returned unchanged when Rollback returns nil.
C30_CommitOrRollback ==
    \A w \in TxCalls :
      /\ tx[w].pc \in {"idle", "begin", "fn"} =>
           (tx[w].commits = 0 /\ tx[w].rollbacks = 0)
      /\ tx[w].pc = "done" =>
           /\ tx[w].begin # "nil" =>
                /\ tx[w].commits = 0 /\ tx[w].rollbacks = 0 /\ tx[w].fnRuns = 0
                /\ tx[w].res = [wrap |-> "begin", err |-> tx[w].begin]
           /\ tx[w].begin = "nil" =>
                /\ tx[w].fnRuns = 1
                /\ tx[w].commits = (IF tx[w].fn = "nil" THEN 1 ELSE 0)
                /\ tx[w].rollbacks = TxRollbacksDue(w)
                /\ ~TxCallPanicked(w) => tx[w].commits + tx[w].rollbacks = 1
                /\ (tx[w].fn \in FnErrors /\ tx[w].rollback = "nil") =>
                     tx[w].res = [wrap |-> "none", err |-> tx[w].fn]
                /\ (tx[w].fn = "nil" /\ tx[w].commit = "nil") =>
                     tx[w].res = [wrap |-> "none", err |-> "nil"]
                /\ (tx[w].fn = "panic" \/ TxCallPanicked(w)) =>
                     tx[w].res.wrap = "panic"

\* C30 witness: ExecuteTransaction has returned the function's error as it
\* is after one Rollback, and WithEntTransaction has raised the panic of its
\* Commit again after Commit and one Rollback.
C30_Witness ==
    /\ tx["ExecuteTransaction"].pc = "done"
    /\ tx["ExecuteTransaction"].fn = "e2"
    /\ tx["ExecuteTransaction"].rollbacks = 1
    /\ tx["ExecuteTransaction"].commits = 0
    /\ tx["ExecuteTransaction"].res = [wrap |-> "none", err |-> "e2"]
    /\ tx["WithEntTransaction"].pc = "done"
    /\ tx["WithEntTransaction"].commit = "panic"
    /\ tx["WithEntTransaction"].commits = 1
    /\ tx["WithEntTransaction"].rollbacks = 1

====
